---------------------------- MODULE Spec2Model ----------------------------
(***************************************************************************)
(* A model of the experiment scripts of optimal-measurement:               *)
(*   utils/dataset.py    sample_patch, ISLVRC.__init__                     *)
(*   bivariate/utils.py  sample_noise, train_simple                        *)
(*   inverse/lnopt.py    denoiser_avg, ln_optim, run_optim                 *)
(* Each component is a sequential Python procedure; it gets a group of     *)
(* variables of its own and a specification of its own (SpecPatch,         *)
(* SpecNoise, SpecTrain, SpecAvg, SpecData, SpecOptim).  The variables of  *)
(* the other components stay at their idle values in a specification.      *)
(*                                                                         *)
(* Real numbers are kept exact: a fraction is a pair <<num, den>> and two  *)
(* fractions are compared by cross multiplication.                         *)
(***************************************************************************)
EXTENDS Integers, Sequences, FiniteSets, TLC

VARIABLES
    \* sample_patch (utils/dataset.py)
    sp_pc, image_shape, scales, patch_size, samples,
    \* sample_noise (bivariate/utils.py)
    sn_pc, size0, noise_level, pow_noise, idx, draws, noise_sd,
    \* train_simple (bivariate/utils.py)
    ts_pc, n_epoch, n_batches, mode, epoch, batch_i, count, total_loss,
    epoch_loss, test_loss, test_in, test_out, sched_steps, opt_steps,
    evals, losses, test_outs,
    \* denoiser_avg (inverse/lnopt.py)
    da_pc, test_torch, n_avg, calls, call_args, outputs, image_sum, recon,
    metrics,
    \* ISLVRC.__init__ (utils/dataset.py)
    ds_pc, args, train_files, test_files, file_i, train_patches,
    test_patches,
    \* run_optim and ln_optim (inverse/lnopt.py)
    ro_pc, ro_err, ln_n_epoch, ln_n_batches, ln_epoch, ln_batch_i, ln_count,
    ln_total_loss, batch_loss, ln_epoch_loss, ln_sched_steps, train_steps,
    logged, pca, denoiser_recon, denoiser_optim, artifact

patchVars == <<sp_pc, image_shape, scales, patch_size, samples>>
noiseVars == <<sn_pc, size0, noise_level, pow_noise, idx, draws, noise_sd>>
trainVars == <<ts_pc, n_epoch, n_batches, mode, epoch, batch_i, count,
               total_loss, epoch_loss, test_loss, test_in, test_out,
               sched_steps, opt_steps, evals, losses, test_outs>>
avgVars   == <<da_pc, test_torch, n_avg, calls, call_args, outputs,
               image_sum, recon, metrics>>
dataVars  == <<ds_pc, args, train_files, test_files, file_i, train_patches,
               test_patches>>
optimVars == <<ro_pc, ro_err, ln_n_epoch, ln_n_batches, ln_epoch, ln_batch_i,
               ln_count, ln_total_loss, batch_loss, ln_epoch_loss,
               ln_sched_steps, train_steps, logged, pca, denoiser_recon,
               denoiser_optim, artifact>>
vars == <<patchVars, noiseVars, trainVars, avgVars, dataVars, optimVars>>

\* what a step of one component leaves alone
notPatch == <<noiseVars, trainVars, avgVars, dataVars, optimVars>>
notNoise == <<patchVars, trainVars, avgVars, dataVars, optimVars>>
notTrain == <<patchVars, noiseVars, avgVars, dataVars, optimVars>>
notAvg   == <<patchVars, noiseVars, trainVars, dataVars, optimVars>>
notData  == <<patchVars, noiseVars, trainVars, avgVars, optimVars>>
notOptim == <<patchVars, noiseVars, trainVars, avgVars, dataVars>>

---------------------------------------------------------------------------
(* Bounds of the model *)

\* largest height and width of a small input image of sample_patch
MaxDim == 4
\* longest list of scales handed to sample_patch
MaxScales == 2
\* largest batch (size[0]) handed to sample_noise
MaxBatch == 3
\* largest noise level (in 8-bit units) of a noise range
MaxLevel == 3
\* largest epoch count of a training run
MaxEpochs == 2
\* largest number of batches a loader yields per epoch
MaxBatches == 2
\* number of pixels of the test batch handed to denoiser_avg
NPix == 2
\* largest n_avg handed to denoiser_avg
MaxAvg == 2
\* largest number of files of the train folder and of the test folder
MaxTrainFiles == 2
MaxTestFiles == 1

---------------------------------------------------------------------------
(* Python helpers *)

Min(a, b) == IF a < b THEN a ELSE b

\* list(range(start, stop, step)) for step > 0
PyRange(start, stop, step) ==
    [k \in 1..(IF stop > start THEN (stop - start + step - 1) \div step ELSE 0)
        |-> start + (k - 1) * step]

RECURSIVE Concat(_)
\* the concatenation of a sequence of sequences, in order
Concat(ss) == IF ss = <<>> THEN <<>> ELSE Head(ss) \o Concat(Tail(ss))

\* every sequence over S of length at most n
SeqsUpTo(S, n) == UNION {[1..k -> S] : k \in 0..n}

---------------------------------------------------------------------------
(* utils/dataset.py: sample_patch *)

\* A scale is a fraction <<num, den>>.  These are dyadic, so the float
\* product image.shape[k] * scale of the source is exact and int() of it
\* is the integer quotient.
ScaleSet == {<<1, 4>>, <<1, 2>>, <<1, 1>>, <<3, 2>>}

\* int(image.shape[k] * scale), for a height or a width n >= 0
ScaledInt(n, scale) == (n * scale[1]) \div scale[2]

\* (resized.shape[0], resized.shape[1]) of the cv2.resize call: dsize is
\* (int(W * scale), int(H * scale))
ResizedShape(shape, scale) ==
    <<ScaledInt(shape[1], scale), ScaledInt(shape[2], scale)>>

\* cv2.resize raises cv2.error when dsize has a zero width or height (an
\* empty dsize falls back on fx, fy, which the call leaves at 0)
ResizeRaises(shape, scale) ==
    \/ ResizedShape(shape, scale)[1] = 0
    \/ ResizedShape(shape, scale)[2] = 0

\* the stop of range(0, ih - ph + 1, ph)
RangeStop(extent, p) == extent - p + 1

\* resized[x:x+ph, y:y+pw, :] of the resized image of scale number k: a
\* numpy slice is cut at the array's end
Block(k, x, y, ph, pw, ih, iw) ==
    [scale |-> k, x |-> x, y |-> y,
     h |-> Min(x + ph, ih) - x, w |-> Min(y + pw, iw) - y]

\* the inner loop: for y in range(0, iw - pw + 1, pw)
RowBlocks(k, x, ph, pw, ih, iw) ==
    LET ys == PyRange(0, RangeStop(iw, pw), pw)
    IN  [j \in 1..Len(ys) |-> Block(k, x, ys[j], ph, pw, ih, iw)]

\* the body of "for scale in scales" once the image is resized
ScaleBlocks(k, ih, iw, ph, pw) ==
    IF ih >= ph /\ iw >= pw
    THEN LET xs == PyRange(0, RangeStop(ih, ph), ph)
         IN  Concat([i \in 1..Len(xs) |-> RowBlocks(k, xs[i], ph, pw, ih, iw)])
    ELSE <<>>

\* sample_patch(image, scales, patch_size): the samples it returns, or the
\* exception of a cv2.resize call, which leaves the function
sample_patch(shape, scs, psize) ==
    IF \E k \in 1..Len(scs) : ResizeRaises(shape, scs[k])
    THEN [raised |-> TRUE, samples |-> <<>>]
    ELSE [raised |-> FALSE,
          samples |-> Concat([k \in 1..Len(scs) |->
              ScaleBlocks(k, ResizedShape(shape, scs[k])[1],
                          ResizedShape(shape, scs[k])[2], psize[1], psize[2])])]

PatchIdle ==
    /\ sp_pc = "idle"
    /\ image_shape = <<1, 1>>
    /\ scales = <<>>
    /\ patch_size = <<1, 1>>
    /\ samples = <<>>

\* the inputs: small images with small patches, and the two images of the
\* specification's examples with 64 x 64 patches
InitPatch ==
    /\ sp_pc = "call"
    /\ \/ /\ image_shape \in (1..MaxDim) \X (1..MaxDim)
          /\ patch_size \in (1..2) \X (1..2)
       \/ /\ image_shape \in {<<256, 256>>, <<100, 100>>}
          /\ patch_size = <<64, 64>>
    /\ scales \in SeqsUpTo(ScaleSet, MaxScales)
    /\ samples = <<>>

CallSamplePatch ==
    /\ sp_pc = "call"
    /\ LET r == sample_patch(image_shape, scales, patch_size)
       IN  /\ sp_pc' = IF r.raised THEN "raised" ELSE "returned"
           /\ samples' = r.samples
    /\ UNCHANGED <<image_shape, scales, patch_size>>
    /\ UNCHANGED notPatch

\* C1's statement of the result: per scale, in list order, the blocks with
\* top-left corner (i*ph, j*pw), i < floor(ih/ph), j < floor(iw/pw),
\* row-major, each ph x pw
FullBlocks(k) ==
    LET ih == ScaledInt(image_shape[1], scales[k])
        iw == ScaledInt(image_shape[2], scales[k])
        ph == patch_size[1]
        pw == patch_size[2]
        nj == iw \div pw
    IN  [n \in 1..((ih \div ph) * nj) |->
            [scale |-> k, x |-> ((n - 1) \div nj) * ph,
             y |-> ((n - 1) % nj) * pw, h |-> ph, w |-> pw]]

\* two blocks of one scale share a pixel
Overlap(a, b) ==
    /\ a.scale = b.scale
    /\ a.x < b.x + b.h /\ b.x < a.x + a.h
    /\ a.y < b.y + b.w /\ b.y < a.y + a.w

TilesAsClaimed ==
    /\ samples = Concat([k \in 1..Len(scales) |-> FullBlocks(k)])
    /\ \A m, n \in 1..Len(samples) :
            m # n => ~Overlap(samples[m], samples[n])
    /\ (image_shape = <<256, 256>> /\ scales = <<(<<1, 1>>)>>)
            => Len(samples) = 16
    /\ (image_shape = <<100, 100>> /\ scales = <<(<<1, 1>>)>>)
            => Len(samples) = 1

\* C1: for every image and every list of scales sample_patch returns
\* exactly the full ph x pw blocks of each resized image, scale-major and
\* row-major, without overlap, and none for a scale whose resized image is
\* smaller than a patch (16 for 256 x 256 with 64 x 64, 1 for 100 x 100).
C1_SamplePatchFullBlocks ==
    sp_pc # "call" => (sp_pc = "returned" /\ TilesAsClaimed)

\* The part of C1 the code keeps: whenever sample_patch returns, its
\* result is the tiling C1 describes.
SamplePatchTilesWhenItReturns ==
    sp_pc = "returned" => TilesAsClaimed

\* a returned call with several blocks over two scales
SamplePatchReturnedSeveral ==
    sp_pc = "returned" /\ Len(scales) = 2 /\ Len(samples) >= 5

---------------------------------------------------------------------------
(* bivariate/utils.py: sample_noise *)

\* the divisor of "random.randint(...) / 255.0"
ByteMax == 255

\* a variant that never squares the level
NoiseSdNotSquared(k, pow) == <<k, ByteMax>>

\* lines 27-31: noise_sd for the drawn level k: k / 255.0, squared under
\* pow_noise
NoiseSd(k, pow) ==
    IF pow THEN <<k * k, ByteMax * ByteMax>> ELSE <<k, ByteMax>>

\* noise = torch.empty(size): a row holds nothing until it is assigned
EmptyRow == <<>>

NoiseIdle ==
    /\ sn_pc = "idle"
    /\ size0 = 0
    /\ noise_level = <<0, 0>>
    /\ pow_noise = FALSE
    /\ idx = 0
    /\ draws = <<>>
    /\ noise_sd = <<>>

\* the state at the head of the loop; random.randint needs low <= high
InitNoise ==
    /\ sn_pc = "loop"
    /\ size0 \in 0..MaxBatch
    /\ noise_level \in {l \in (0..MaxLevel) \X (0..MaxLevel) : l[1] <= l[2]}
    /\ pow_noise \in BOOLEAN
    /\ idx = 0
    /\ draws = <<>>
    /\ noise_sd = [i \in 1..size0 |-> EmptyRow]

\* one iteration of "for idx in range(int(size[0]))": the level is drawn,
\* and row idx of noise is drawn with the standard deviation it gives
DrawSample ==
    /\ sn_pc = "loop"
    /\ idx < size0
    /\ \E k \in noise_level[1]..noise_level[2] :
          /\ draws' = Append(draws, k)
          /\ noise_sd' = [noise_sd EXCEPT ![idx + 1] = NoiseSd(k, pow_noise)]
    /\ idx' = idx + 1
    /\ UNCHANGED <<sn_pc, size0, noise_level, pow_noise>>
    /\ UNCHANGED notNoise

\* return noise
ReturnNoise ==
    /\ sn_pc = "loop"
    /\ idx = size0
    /\ sn_pc' = "returned"
    /\ UNCHANGED <<size0, noise_level, pow_noise, idx, draws, noise_sd>>
    /\ UNCHANGED notNoise

\* the fraction f is k / 255
IsLevel(f, k) == f[1] * 255 = k * f[2]

\* the fraction f is (k / 255)^2
IsLevelSquared(f, k) == f[1] * 255 * 255 = k * k * f[2]

\* C2: the level is drawn once per sample: sample i has a draw k_i of its
\* own with low <= k_i <= high, its standard deviation is k_i/255, or
\* (k_i/255)^2 under pow_noise, a sample not yet drawn has none, and a
\* returned batch of N samples has made exactly N draws.
C2_NoisePerSample ==
    /\ Len(draws) = idx
    /\ sn_pc = "returned" => Len(draws) = size0
    /\ \A i \in 1..size0 :
          IF i <= idx
          THEN /\ noise_level[1] <= draws[i] /\ draws[i] <= noise_level[2]
               /\ Len(noise_sd[i]) = 2
               /\ IF pow_noise THEN IsLevelSquared(noise_sd[i], draws[i])
                                ELSE IsLevel(noise_sd[i], draws[i])
          ELSE noise_sd[i] = EmptyRow

\* a returned batch whose samples drew different levels, squared
C2_TwoLevelsDrawn ==
    /\ sn_pc = "returned" /\ pow_noise
    /\ size0 >= 2 /\ draws[1] # draws[2] /\ draws[2] >= 2

---------------------------------------------------------------------------
(* bivariate/utils.py: train_simple *)

\* the values loss.item() and the test criteria take, in arbitrary units
LossSet == {1, 2}

RECURSIVE SumSeq(_)
\* the sum of a sequence of numbers
SumSeq(q) == IF q = <<>> THEN 0 ELSE Head(q) + SumSeq(Tail(q))

\* a variant of the epoch loop that runs one epoch too many
MoreEpochsOffByOne(e, n) == e <= n

\* line 56, "for epoch in range(args.n_epoch)": another iteration follows
MoreEpochs(e, n) == e < n

\* a variant without line 57: the mode is left as the last epoch set it
ModeKeptAtEpochStart(m) == m

\* line 57, model.train() at the head of every epoch
ModeAtEpochStart(m) == "train"

\* a variant of the epoch's body that evaluates before scheduler.step()
PhaseAfterEvaluateFirst(p) ==
    CASE p = "batch"    -> "evalmode"
      [] p = "evalmode" -> "test"
      [] p = "test"     -> "decay"
      [] p = "decay"    -> "record"

\* the statement order of an epoch's body: the batch loop (60-75),
\* scheduler.step() (77), model.eval() (80), the test pass (82-88), the
\* appends (91-92)
PhaseAfter(p) ==
    CASE p = "batch"    -> "decay"
      [] p = "decay"    -> "evalmode"
      [] p = "evalmode" -> "test"
      [] p = "test"     -> "record"

\* total_loss / float(count + 1), as a fraction
EpochAverage(total, cnt) == <<total, cnt + 1>>

TrainIdle ==
    /\ ts_pc = "idle"
    /\ n_epoch = 0 /\ n_batches = 0
    /\ mode = "train"
    /\ epoch = 0 /\ batch_i = 0 /\ count = -1
    /\ total_loss = 0
    /\ epoch_loss = <<>> /\ test_loss = <<>>
    /\ test_in = 0 /\ test_out = 0
    /\ sched_steps = 0 /\ opt_steps = 0 /\ evals = 0
    /\ losses = <<>> /\ test_outs = <<>>

\* the call: any epoch count, a loader of at least one batch, and a model
\* in either mode.  count = -1 stands for the unbound loop variable.
InitTrain ==
    /\ ts_pc = "setup"
    /\ n_epoch \in 0..MaxEpochs
    /\ n_batches \in 1..MaxBatches
    /\ mode \in {"train", "eval"}
    /\ epoch = 0 /\ batch_i = 0 /\ count = -1
    /\ total_loss = 0
    /\ epoch_loss = <<>> /\ test_loss = <<>>
    /\ test_in = 0 /\ test_out = 0
    /\ sched_steps = 0 /\ opt_steps = 0 /\ evals = 0
    /\ losses = <<>> /\ test_outs = <<>>

\* lines 39-55: model.train(), the loader, the optimizer, the scheduler,
\* the two empty lists
Setup ==
    /\ ts_pc = "setup"
    /\ mode' = "train"
    /\ epoch_loss' = <<>>
    /\ test_loss' = <<>>
    /\ ts_pc' = "epoch"
    /\ UNCHANGED <<n_epoch, n_batches, epoch, batch_i, count, total_loss,
                   test_in, test_out, sched_steps, opt_steps, evals, losses,
                   test_outs>>
    /\ UNCHANGED notTrain

\* lines 56-58: the next epoch begins
EpochStart ==
    /\ ts_pc = "epoch"
    /\ MoreEpochs(epoch, n_epoch)
    /\ mode' = ModeAtEpochStart(mode)
    /\ total_loss' = 0
    /\ batch_i' = 0
    /\ losses' = Append(losses, <<>>)
    /\ ts_pc' = "batch"
    /\ UNCHANGED <<n_epoch, n_batches, epoch, count, epoch_loss, test_loss,
                   test_in, test_out, sched_steps, opt_steps, evals,
                   test_outs>>
    /\ UNCHANGED notTrain

\* lines 60-75: one batch: noise, forward pass, loss, backward pass,
\* optimizer.step(), total_loss += loss.item()
TrainStep ==
    /\ ts_pc = "batch"
    /\ batch_i < n_batches
    /\ count' = batch_i
    /\ \E loss \in LossSet :
          /\ total_loss' = total_loss + loss
          /\ losses' = [losses EXCEPT ![Len(losses)] = Append(@, loss)]
    /\ opt_steps' = opt_steps + 1
    /\ batch_i' = batch_i + 1
    /\ UNCHANGED <<ts_pc, n_epoch, n_batches, mode, epoch, epoch_loss,
                   test_loss, test_in, test_out, sched_steps, evals,
                   test_outs>>
    /\ UNCHANGED notTrain

\* the loader is exhausted: the batch loop ends
EndOfBatches ==
    /\ ts_pc = "batch"
    /\ batch_i = n_batches
    /\ ts_pc' = PhaseAfter("batch")
    /\ UNCHANGED <<n_epoch, n_batches, mode, epoch, batch_i, count,
                   total_loss, epoch_loss, test_loss, test_in, test_out,
                   sched_steps, opt_steps, evals, losses, test_outs>>
    /\ UNCHANGED notTrain

\* line 77: scheduler.step()
SchedulerStep ==
    /\ ts_pc = "decay"
    /\ sched_steps' = sched_steps + 1
    /\ ts_pc' = PhaseAfter("decay")
    /\ UNCHANGED <<n_epoch, n_batches, mode, epoch, batch_i, count,
                   total_loss, epoch_loss, test_loss, test_in, test_out,
                   opt_steps, evals, losses, test_outs>>
    /\ UNCHANGED notTrain

\* line 80: model.eval()
EvalMode ==
    /\ ts_pc = "evalmode"
    /\ mode' = "eval"
    /\ ts_pc' = PhaseAfter("evalmode")
    /\ UNCHANGED <<n_epoch, n_batches, epoch, batch_i, count, total_loss,
                   epoch_loss, test_loss, test_in, test_out, sched_steps,
                   opt_steps, evals, losses, test_outs>>
    /\ UNCHANGED notTrain

\* lines 82-88: the noisy test batch, the residual, test_in and test_out
Evaluate ==
    /\ ts_pc = "test"
    /\ test_in' \in LossSet
    /\ test_out' \in LossSet
    /\ test_outs' = Append(test_outs, test_out')
    /\ evals' = evals + 1
    /\ ts_pc' = PhaseAfter("test")
    /\ UNCHANGED <<n_epoch, n_batches, mode, epoch, batch_i, count,
                   total_loss, epoch_loss, test_loss, sched_steps, opt_steps,
                   losses>>
    /\ UNCHANGED notTrain

\* lines 91-92: the two appends; the loop variable epoch moves on
Record ==
    /\ ts_pc = "record"
    /\ epoch_loss' = Append(epoch_loss, EpochAverage(total_loss, count))
    /\ test_loss' = Append(test_loss, test_out)
    /\ epoch' = epoch + 1
    /\ test_in' = 0
    /\ test_out' = 0
    /\ ts_pc' = "epoch"
    /\ UNCHANGED <<n_epoch, n_batches, mode, batch_i, count, total_loss,
                   sched_steps, opt_steps, evals, losses, test_outs>>
    /\ UNCHANGED notTrain

\* line 99: return epoch_loss, test_loss
ReturnLosses ==
    /\ ts_pc = "epoch"
    /\ ~MoreEpochs(epoch, n_epoch)
    /\ ts_pc' = "done"
    /\ UNCHANGED <<n_epoch, n_batches, mode, epoch, batch_i, count,
                   total_loss, epoch_loss, test_loss, test_in, test_out,
                   sched_steps, opt_steps, evals, losses, test_outs>>
    /\ UNCHANGED notTrain

NextTrain ==
    \/ Setup
    \/ EpochStart
    \/ TrainStep
    \/ EndOfBatches
    \/ SchedulerStep
    \/ EvalMode
    \/ Evaluate
    \/ Record
    \/ ReturnLosses

\* every train step of the current epoch has been taken
AllBatchesTrained == opt_steps = (epoch + 1) * n_batches

\* C3, as claimed: the scheduler is advanced only after the epoch's test
\* evaluation, so it never has more steps than there are evaluations, and
\* an epoch's evaluation is computed only after all its train steps.
C3_EvaluateThenDecay ==
    /\ sched_steps <= evals
    /\ evals = epoch + 1 => AllBatchesTrained

\* C3, amended: in every epoch the order is Train-Step*, Decay, Evaluate:
\* the scheduler is advanced only after all the epoch's train steps, and
\* the evaluation is computed only after the scheduler was advanced.
C3_DecayThenEvaluate ==
    /\ epoch <= evals /\ evals <= sched_steps /\ sched_steps <= epoch + 1
    /\ sched_steps = epoch + 1 => AllBatchesTrained

\* a second epoch whose scheduler step is taken and whose evaluation is not
C3_DecayedNotEvaluated ==
    epoch = 1 /\ sched_steps = 2 /\ evals = 1 /\ ts_pc = "test"

\* the entries i of the two lists are epoch i's average loss and test-out
EntriesAreEpochLosses ==
    \A i \in 1..Len(epoch_loss) :
        /\ Len(losses[i]) > 0
        /\ epoch_loss[i][1] * Len(losses[i]) = SumSeq(losses[i]) * epoch_loss[i][2]
        /\ i <= Len(test_loss) /\ test_loss[i] = test_outs[i]

C4_Lengths ==
    /\ ts_pc \in {"epoch", "done"} =>
          Len(epoch_loss) = epoch /\ Len(test_loss) = epoch
    /\ ts_pc = "done" => epoch = n_epoch
    /\ EntriesAreEpochLosses

C4_AppendOnly ==
    /\ Len(epoch_loss') >= Len(epoch_loss)
    /\ Len(test_loss') >= Len(test_loss)
    /\ \A i \in 1..Len(epoch_loss) : epoch_loss'[i] = epoch_loss[i]
    /\ \A i \in 1..Len(test_loss) : test_loss'[i] = test_loss[i]

\* C4: train_simple terminates, after exactly n_epoch epochs, returning
\* two lists of length n_epoch whose entries i are epoch i's training loss
\* and test-out loss; after every epoch both lengths are the number of
\* epochs completed, and an appended entry never changes.
C4_ReturnsOneEntryPerEpoch ==
    /\ []C4_Lengths
    /\ [][C4_AppendOnly]_vars
    /\ <>(ts_pc = "done")

\* a return after two epochs with different training losses
C4_TwoEpochsReturned ==
    /\ ts_pc = "done" /\ n_epoch = 2 /\ Len(epoch_loss) = 2
    /\ epoch_loss[1] # epoch_loss[2] /\ test_loss[1] # test_loss[2]

C10_Step ==
    /\ opt_steps' # opt_steps => mode = "train"
    /\ evals' # evals => mode = "eval"
    /\ mode = "eval" => opt_steps' = opt_steps

\* C10: every train step, in every epoch, is taken in training mode, every
\* test evaluation in evaluation mode, and no optimizer step is taken while
\* the model is in evaluation mode.
C10_ModeMatchesPhase == [][C10_Step]_vars

\* a train step of a second epoch, after an evaluation, in training mode
C10_SecondEpochTrainStep ==
    epoch = 1 /\ evals = 1 /\ ts_pc = "batch" /\ batch_i >= 1 /\ mode = "train"

---------------------------------------------------------------------------
(* inverse/lnopt.py: denoiser_avg *)

\* the values of a pixel of the test batch and of a reconstruction
PixSet == {0, 1}

\* a batch of one image of NPix pixels
Images == [1..NPix -> PixSet]

\* a variant that assigns the output instead of adding it
AccumulateLastOnly(sum, out) == out

\* line 44: image_sum += solver(test_torch)
Accumulate(sum, out) == [i \in DOMAIN sum |-> sum[i] + out[i]]

\* recon = image_sum / n_avg, element-wise, as fractions
Divide(sum, n) == [i \in DOMAIN sum |-> <<sum[i], n>>]

\* MSE(test_torch, recon) / test_torch.shape[0] with the sum reduction of
\* line 15, for a batch of one image: a fraction
MseVal(test, rec) ==
    <<SumSeq([i \in DOMAIN test |->
                (test[i] * rec[i][2] - rec[i][1]) * (test[i] * rec[i][2] - rec[i][1])]),
      rec[1][2] * rec[1][2]>>

AvgIdle ==
    /\ da_pc = "idle"
    /\ test_torch = <<>>
    /\ n_avg = 0
    /\ calls = 0
    /\ call_args = <<>> /\ outputs = <<>>
    /\ image_sum = <<>> /\ recon = <<>> /\ metrics = <<>>

InitAvg ==
    /\ da_pc = "entry"
    /\ test_torch \in Images
    /\ n_avg \in 1..MaxAvg
    /\ calls = 0
    /\ call_args = <<>> /\ outputs = <<>>
    /\ image_sum = <<>> /\ recon = <<>> /\ metrics = <<>>

\* line 42: image_sum = torch.zeros_like(test_torch)
ZeroSum ==
    /\ da_pc = "entry"
    /\ image_sum' = [i \in DOMAIN test_torch |-> 0]
    /\ da_pc' = "loop"
    /\ UNCHANGED <<test_torch, n_avg, calls, call_args, outputs, recon,
                   metrics>>
    /\ UNCHANGED notAvg

\* lines 43-44: one call of the stochastic solver on test_torch
SolverCall ==
    /\ da_pc = "loop"
    /\ calls < n_avg
    /\ \E out \in Images :
          /\ outputs' = Append(outputs, out)
          /\ image_sum' = Accumulate(image_sum, out)
    /\ call_args' = Append(call_args, test_torch)
    /\ calls' = calls + 1
    /\ UNCHANGED <<da_pc, test_torch, n_avg, recon, metrics>>
    /\ UNCHANGED notAvg

\* lines 45-55: the average, the three metrics, the return
Average ==
    /\ da_pc = "loop"
    /\ calls = n_avg
    /\ recon' = Divide(image_sum, n_avg)
    /\ metrics' = [mse |-> MseVal(test_torch, recon'),
                   ssim |-> <<recon', test_torch>>,
                   psnr |-> <<test_torch, recon'>>]
    /\ da_pc' = "returned"
    /\ UNCHANGED <<test_torch, n_avg, calls, call_args, outputs, image_sum>>
    /\ UNCHANGED notAvg

NextAvg == ZeroSum \/ SolverCall \/ Average

\* the sum over the solver's outputs of pixel i
OutputSum(i) == SumSeq([c \in 1..Len(outputs) |-> outputs[c][i]])

\* the squared error of the first solver output against the test batch
FirstCallSquaredError ==
    SumSeq([i \in 1..NPix |->
        (test_torch[i] - outputs[1][i]) * (test_torch[i] - outputs[1][i])])

\* C5: denoiser_avg calls the solver exactly n_avg times, each time on
\* test_torch, and the reconstruction it scores and returns is the
\* element-wise sum of the outputs divided by n_avg; with n_avg = 1 it is
\* the single output, and the metrics are that output's own.
C5_AverageOfCalls ==
    /\ calls <= n_avg /\ Len(outputs) = calls /\ Len(call_args) = calls
    /\ \A c \in 1..Len(call_args) : call_args[c] = test_torch
    /\ da_pc = "returned" =>
          /\ calls = n_avg
          /\ \A i \in 1..NPix : recon[i][1] * n_avg = OutputSum(i) * recon[i][2]
          /\ metrics.ssim = <<recon, test_torch>>
          /\ metrics.psnr = <<test_torch, recon>>
          /\ n_avg = 1 =>
                /\ \A i \in 1..NPix : recon[i][1] = outputs[1][i] * recon[i][2]
                /\ metrics.mse[1] = FirstCallSquaredError * metrics.mse[2]

\* a returned average of two different outputs
C5_TwoCallsAveraged ==
    /\ da_pc = "returned" /\ n_avg = 2
    /\ outputs[1] # outputs[2] /\ outputs[1][1] = 1

---------------------------------------------------------------------------
(* utils/dataset.py: ISLVRC.__init__ *)

\* A decoded file is [shape, v]: shape is image.shape, of 2 entries for a
\* grayscale array and 3 for a colour one, and the 8-bit pixels are v at
\* the even rows and columns and 0 elsewhere, in every channel.  Heights,
\* widths and patch sizes are even, so a block of the image, and of the
\* image halved by cv2.resize, has the mean v / (4 * 255) after to_float.
TrainImages ==
    [shape : {<<2, 2>>, <<2, 4, 3>>, <<2, 2, 4>>}, v : {50, 51, 52}]
TestImages ==
    [shape : {<<256, 256>>, <<256, 512, 3>>, <<256, 256, 4>>}, v : {0, 52}]

\* test_size and test_scale of lines 50-51
test_size == <<128, 128>>
test_scale == <<(<<1, 2>>)>>

\* sample.mean() of a block of the image, after to_float: a fraction
Mean(sample) == <<sample.v, 4 * ByteMax>>

\* the 0.05 of line 43
Threshold == <<5, 100>>

\* a >= b for fractions with positive denominators
GeFrac(a, b) == a[1] * b[2] >= b[1] * a[2]

\* a variant that keeps every sample
BrightAlways(sample) == TRUE

\* line 43: sample.mean() >= 0.05
BrightEnough(sample) == GeFrac(Mean(sample), Threshold)

\* lines 40 and 55: len(image.shape) == 3
IsColourArray(image) == Len(image.shape) = 3

\* the samples of file number f: sample_patch's blocks with the file's
\* channels and pixels
FileSamples(f, image, scs, psize) ==
    LET r == sample_patch(image.shape, scs, psize)
    IN  [raised |-> r.raised,
         samples |-> [n \in 1..Len(r.samples) |->
             [file |-> f, chan |-> image.shape[3], v |-> image.v,
              block |-> r.samples[n]]]]

\* np.stack raises ValueError on an empty list and on arrays of different
\* shapes
StackRaises(patches) ==
    \/ patches = <<>>
    \/ \E m, n \in 1..Len(patches) : patches[m].chan # patches[n].chan

DataIdle ==
    /\ ds_pc = "idle"
    /\ args = <<>>
    /\ train_files = <<>> /\ test_files = <<>>
    /\ file_i = 0
    /\ train_patches = <<>> /\ test_patches = <<>>

\* the state after lines 31-37: the two folders listed, linear = False.
\* args.scales is [1.0] and args.patch_size (2, 2): the train images are
\* not resized, and every block starts at an even row and column.
InitData ==
    /\ ds_pc = "train"
    /\ args = [scales |-> <<(<<1, 1>>)>>, patch_size |-> <<2, 2>>]
    /\ train_files \in SeqsUpTo(TrainImages, MaxTrainFiles)
    /\ test_files \in SeqsUpTo(TestImages, MaxTestFiles)
    /\ file_i = 0
    /\ train_patches = <<>> /\ test_patches = <<>>

\* lines 38-44: one file of the train folder
LoadTrainFile ==
    /\ ds_pc = "train"
    /\ file_i < Len(train_files)
    /\ LET image == train_files[file_i + 1]
           r == FileSamples(file_i + 1, image, args.scales, args.patch_size)
       IN  IF ~IsColourArray(image)
           THEN UNCHANGED <<ds_pc, train_patches>>
           ELSE IF r.raised
           THEN ds_pc' = "raised" /\ UNCHANGED train_patches
           ELSE /\ train_patches' =
                      train_patches \o SelectSeq(r.samples, BrightEnough)
                /\ UNCHANGED ds_pc
    /\ file_i' = file_i + 1
    /\ UNCHANGED <<args, train_files, test_files, test_patches>>
    /\ UNCHANGED notData

\* line 47: self.train_patches = np.stack(self.train_patches)
StackTrain ==
    /\ ds_pc = "train"
    /\ file_i = Len(train_files)
    /\ ds_pc' = IF StackRaises(train_patches) THEN "raised" ELSE "test"
    /\ file_i' = 0
    /\ UNCHANGED <<args, train_files, test_files, train_patches,
                   test_patches>>
    /\ UNCHANGED notData

\* lines 53-58: one file of the test folder
LoadTestFile ==
    /\ ds_pc = "test"
    /\ file_i < Len(test_files)
    /\ LET image == test_files[file_i + 1]
           r == FileSamples(file_i + 1, image, test_scale, test_size)
       IN  IF ~IsColourArray(image)
           THEN UNCHANGED <<ds_pc, test_patches>>
           ELSE IF r.raised
           THEN ds_pc' = "raised" /\ UNCHANGED test_patches
           ELSE /\ test_patches' = test_patches \o r.samples
                /\ UNCHANGED ds_pc
    /\ file_i' = file_i + 1
    /\ UNCHANGED <<args, train_files, test_files, train_patches>>
    /\ UNCHANGED notData

\* line 61: self.test_patches = np.stack(self.test_patches)
StackTest ==
    /\ ds_pc = "test"
    /\ file_i = Len(test_files)
    /\ ds_pc' = IF StackRaises(test_patches) THEN "raised" ELSE "built"
    /\ UNCHANGED <<args, train_files, test_files, file_i, train_patches,
                   test_patches>>
    /\ UNCHANGED notData

NextData == LoadTrainFile \/ StackTrain \/ LoadTestFile \/ StackTest

\* a > b for fractions with positive denominators
GtFrac(a, b) == a[1] * b[2] > b[1] * a[2]

\* C6, as claimed, for the patches of 3-channel files: every patch kept in
\* the train or the test collection has a mean intensity above 0.05.
C6_KeptPatchesExceedThreshold ==
    /\ \A n \in 1..Len(train_patches) :
          train_patches[n].chan = 3
              => GtFrac(Mean(train_patches[n]), Threshold)
    /\ \A n \in 1..Len(test_patches) :
          test_patches[n].chan = 3
              => GtFrac(Mean(test_patches[n]), Threshold)

\* the test patches of the files read so far, whatever their brightness
TestSamplesRead ==
    Concat([f \in 1..(IF ds_pc = "test" THEN file_i ELSE Len(test_files)) |->
        IF IsColourArray(test_files[f])
        THEN FileSamples(f, test_files[f], test_scale, test_size).samples
        ELSE <<>>])

\* C6, amended: every patch kept in the training collection has a mean
\* intensity of at least 0.05 (a mean of exactly 0.05 is kept); the test
\* collection keeps every sampled patch whatever its brightness.
C6_TrainPatchesAtLeastThreshold ==
    /\ \A n \in 1..Len(train_patches) :
          train_patches[n].v * 100 >= 5 * 4 * 255
    /\ ds_pc \in {"test", "built"} => test_patches = TestSamplesRead

\* a built dataset that keeps a training patch of mean exactly 0.05 and a
\* black test patch
C6_ThresholdPatchKept ==
    /\ ds_pc = "built"
    /\ \E n \in 1..Len(train_patches) : train_patches[n].v = 51
    /\ \E n \in 1..Len(test_patches) : test_patches[n].v = 0

\* C7: only a file that decodes to a 3-channel image contributes patches:
\* every kept patch comes from a file with image.shape[2] = 3.
C7_OnlyThreeChannelFilesContribute ==
    /\ \A n \in 1..Len(train_patches) : train_patches[n].chan = 3
    /\ \A n \in 1..Len(test_patches) : test_patches[n].chan = 3

---------------------------------------------------------------------------
(* inverse/lnopt.py: ln_optim and run_optim *)

\* the reconstructions a call of denoiser_avg can return (0: not yet run)
ReconSet == {1, 2}

\* pca_projection's result: the projection matrix and the reconstruction
PcaResult == [mtx |-> "pca_mtx", recon |-> "pca_recon"]

\* a variant of save_vars that lists pca_mtx before denoiser_optim
SaveVarsMatrixFirst ==
    << [var |-> "pca_recon", val |-> pca.recon],
       [var |-> "denoiser_recon", val |-> denoiser_recon],
       [var |-> "pca_mtx", val |-> pca.mtx],
       [var |-> "denoiser_optim", val |-> denoiser_optim],
       [var |-> "optim_mtx", val |-> train_steps] >>

\* line 166: save_vars, with optim_mtx the weight after the optimizer steps
SaveVars ==
    << [var |-> "pca_recon", val |-> pca.recon],
       [var |-> "denoiser_recon", val |-> denoiser_recon],
       [var |-> "denoiser_optim", val |-> denoiser_optim],
       [var |-> "pca_mtx", val |-> pca.mtx],
       [var |-> "optim_mtx", val |-> train_steps] >>

\* line 98: avg_loss = total_loss / float(count), as a fraction
AvgLoss(total, cnt) == <<total, cnt>>

OptimIdle ==
    /\ ro_pc = "idle" /\ ro_err = "none"
    /\ ln_n_epoch = 0 /\ ln_n_batches = 0
    /\ ln_epoch = 0 /\ ln_batch_i = 0 /\ ln_count = -1
    /\ ln_total_loss = 0
    /\ batch_loss = <<>> /\ ln_epoch_loss = <<>>
    /\ ln_sched_steps = 0 /\ train_steps = 0 /\ logged = 0
    /\ pca = <<>> /\ denoiser_recon = 0 /\ denoiser_optim = 0
    /\ artifact = <<>>

\* the call of run_optim: any epoch count and a training set of at least
\* one batch.  ln_count = -1 stands for the unbound loop variable.
InitOptim ==
    /\ ro_pc = "start" /\ ro_err = "none"
    /\ ln_n_epoch \in 0..MaxEpochs
    /\ ln_n_batches \in 1..MaxBatches
    /\ ln_epoch = 0 /\ ln_batch_i = 0 /\ ln_count = -1
    /\ ln_total_loss = 0
    /\ batch_loss = <<>> /\ ln_epoch_loss = <<>>
    /\ ln_sched_steps = 0 /\ train_steps = 0 /\ logged = 0
    /\ pca = <<>> /\ denoiser_recon = 0 /\ denoiser_optim = 0
    /\ artifact = <<>>

\* run_optim, lines 118-150: the log, the solver, the loss, the PCA baseline
PcaBaseline ==
    /\ ro_pc = "start"
    /\ pca' = PcaResult
    /\ ro_pc' = "pca_avg"
    /\ UNCHANGED <<ro_err, ln_n_epoch, ln_n_batches, ln_epoch, ln_batch_i,
                   ln_count, ln_total_loss, batch_loss, ln_epoch_loss,
                   ln_sched_steps, train_steps, logged, denoiser_recon,
                   denoiser_optim, artifact>>
    /\ UNCHANGED notOptim

\* run_optim, lines 153-156: denoiser_avg of the solver with the PCA matrix
PcaDenoiserAvg ==
    /\ ro_pc = "pca_avg"
    /\ denoiser_recon' \in ReconSet
    /\ ro_pc' = "ln_setup"
    /\ UNCHANGED <<ro_err, ln_n_epoch, ln_n_batches, ln_epoch, ln_batch_i,
                   ln_count, ln_total_loss, batch_loss, ln_epoch_loss,
                   ln_sched_steps, train_steps, logged, pca, denoiser_optim,
                   artifact>>
    /\ UNCHANGED notOptim

\* ln_optim, lines 61-71: the loader, the optimizer, the scheduler, the
\* two empty lists
LnSetup ==
    /\ ro_pc = "ln_setup"
    /\ batch_loss' = <<>>
    /\ ln_epoch_loss' = <<>>
    /\ ro_pc' = "ln_epoch"
    /\ UNCHANGED <<ro_err, ln_n_epoch, ln_n_batches, ln_epoch, ln_batch_i,
                   ln_count, ln_total_loss, ln_sched_steps, train_steps,
                   logged, pca, denoiser_recon, denoiser_optim, artifact>>
    /\ UNCHANGED notOptim

\* ln_optim, lines 74-76: the next epoch begins
LnEpochStart ==
    /\ ro_pc = "ln_epoch"
    /\ ln_epoch < ln_n_epoch
    /\ ln_total_loss' = 0
    /\ ln_batch_i' = 0
    /\ ro_pc' = "ln_batch"
    /\ UNCHANGED <<ro_err, ln_n_epoch, ln_n_batches, ln_epoch, ln_count,
                   batch_loss, ln_epoch_loss, ln_sched_steps, train_steps,
                   logged, pca, denoiser_recon, denoiser_optim, artifact>>
    /\ UNCHANGED notOptim

\* ln_optim, lines 79-95: one batch: reconstruction, loss, optim.step(),
\* loss_val appended and added to total_loss
LnTrainStep ==
    /\ ro_pc = "ln_batch"
    /\ ln_batch_i < ln_n_batches
    /\ ln_count' = ln_batch_i
    /\ \E loss_val \in LossSet :
          /\ batch_loss' = Append(batch_loss, loss_val)
          /\ ln_total_loss' = ln_total_loss + loss_val
    /\ train_steps' = train_steps + 1
    /\ ln_batch_i' = ln_batch_i + 1
    /\ UNCHANGED <<ro_pc, ro_err, ln_n_epoch, ln_n_batches, ln_epoch,
                   ln_epoch_loss, ln_sched_steps, logged, pca,
                   denoiser_recon, denoiser_optim, artifact>>
    /\ UNCHANGED notOptim

\* ln_optim, lines 98-99: the epoch's average is appended; the float
\* division raises ZeroDivisionError when count is 0
LnAverage ==
    /\ ro_pc = "ln_batch"
    /\ ln_batch_i = ln_n_batches
    /\ IF ln_count = 0
       THEN /\ ro_pc' = "raised"
            /\ ro_err' = "ZeroDivisionError"
            /\ UNCHANGED ln_epoch_loss
       ELSE /\ ro_pc' = "ln_decay"
            /\ ln_epoch_loss' =
                  Append(ln_epoch_loss, AvgLoss(ln_total_loss, ln_count))
            /\ UNCHANGED ro_err
    /\ UNCHANGED <<ln_n_epoch, ln_n_batches, ln_epoch, ln_batch_i, ln_count,
                   ln_total_loss, batch_loss, ln_sched_steps, train_steps,
                   logged, pca, denoiser_recon, denoiser_optim, artifact>>
    /\ UNCHANGED notOptim

\* ln_optim, line 102: scheduler.step()
LnSchedulerStep ==
    /\ ro_pc = "ln_decay"
    /\ ln_sched_steps' = ln_sched_steps + 1
    /\ ro_pc' = "ln_test"
    /\ UNCHANGED <<ro_err, ln_n_epoch, ln_n_batches, ln_epoch, ln_batch_i,
                   ln_count, ln_total_loss, batch_loss, ln_epoch_loss,
                   train_steps, logged, pca, denoiser_recon, denoiser_optim,
                   artifact>>
    /\ UNCHANGED notOptim

\* ln_optim, lines 105-111: denoiser_avg on the test set and the epoch's
\* log lines; the loop variable epoch moves on
LnEvaluate ==
    /\ ro_pc = "ln_test"
    /\ logged' = logged + 1
    /\ ln_epoch' = ln_epoch + 1
    /\ ro_pc' = "ln_epoch"
    /\ UNCHANGED <<ro_err, ln_n_epoch, ln_n_batches, ln_batch_i, ln_count,
                   ln_total_loss, batch_loss, ln_epoch_loss, ln_sched_steps,
                   train_steps, pca, denoiser_recon, denoiser_optim,
                   artifact>>
    /\ UNCHANGED notOptim

\* ln_optim, line 112: return solver
LnReturn ==
    /\ ro_pc = "ln_epoch"
    /\ ln_epoch >= ln_n_epoch
    /\ ro_pc' = "final_avg"
    /\ UNCHANGED <<ro_err, ln_n_epoch, ln_n_batches, ln_epoch, ln_batch_i,
                   ln_count, ln_total_loss, batch_loss, ln_epoch_loss,
                   ln_sched_steps, train_steps, logged, pca, denoiser_recon,
                   denoiser_optim, artifact>>
    /\ UNCHANGED notOptim

\* run_optim, lines 159-161: ln_optim has returned; denoiser_avg of the
\* trained solver
FinalAvg ==
    /\ ro_pc = "final_avg"
    /\ denoiser_optim' \in ReconSet
    /\ ro_pc' = "save"
    /\ UNCHANGED <<ro_err, ln_n_epoch, ln_n_batches, ln_epoch, ln_batch_i,
                   ln_count, ln_total_loss, batch_loss, ln_epoch_loss,
                   ln_sched_steps, train_steps, logged, pca, denoiser_recon,
                   artifact>>
    /\ UNCHANGED notOptim

\* run_optim, lines 164-170: the five arrays are saved to the run's file
Save ==
    /\ ro_pc = "save"
    /\ artifact' = SaveVars
    /\ ro_pc' = "done"
    /\ UNCHANGED <<ro_err, ln_n_epoch, ln_n_batches, ln_epoch, ln_batch_i,
                   ln_count, ln_total_loss, batch_loss, ln_epoch_loss,
                   ln_sched_steps, train_steps, logged, pca, denoiser_recon,
                   denoiser_optim>>
    /\ UNCHANGED notOptim

NextOptim ==
    \/ PcaBaseline
    \/ PcaDenoiserAvg
    \/ LnSetup
    \/ LnEpochStart
    \/ LnTrainStep
    \/ LnAverage
    \/ LnSchedulerStep
    \/ LnEvaluate
    \/ LnReturn
    \/ FinalAvg
    \/ Save

\* the baselines are computed: the PCA projection and the zero-shot
\* evaluation of the solver with the PCA matrix
BaselinesDone == pca = PcaResult /\ denoiser_recon \in ReconSet

\* C8: the PCA baseline and the zero-shot evaluation are complete before
\* the first training step; the artifact is written only after training
\* and the final evaluation, and holds exactly five arrays: PCA
\* reconstruction, PCA+denoiser reconstruction, trained reconstruction,
\* PCA matrix, trained matrix, in this order.
C8_BaselinesThenTrainingThenArtifact ==
    /\ (train_steps > 0 \/ ro_pc = "ln_batch") => BaselinesDone
    /\ ro_pc = "done" => artifact # <<>>
    /\ artifact # <<>> =>
          /\ BaselinesDone
          /\ ln_epoch = ln_n_epoch
          /\ train_steps = ln_n_epoch * ln_n_batches
          /\ denoiser_optim \in ReconSet
          /\ Len(artifact) = 5
          /\ [k \in 1..5 |-> artifact[k].var] =
                <<"pca_recon", "denoiser_recon", "denoiser_optim",
                  "pca_mtx", "optim_mtx">>
          /\ [k \in 1..5 |-> artifact[k].val] =
                <<"pca_recon", denoiser_recon, denoiser_optim,
                  "pca_mtx", train_steps>>

\* an artifact written after two epochs of two batches
C8_ArtifactAfterTraining ==
    /\ ro_pc = "done" /\ Len(artifact) = 5
    /\ train_steps = 4 /\ denoiser_recon # denoiser_optim

\* the sum of the per-batch loss values of epoch i
EpochLossSum(i) ==
    SumSeq([b \in 1..ln_n_batches |-> batch_loss[(i - 1) * ln_n_batches + b]])

\* C9: in every epoch of ln_optim the average appended to epoch_loss is the
\* sum of the epoch's per-batch loss values divided by the number of
\* batches of the epoch, and no arithmetic error is raised, also with one
\* batch.
C9_EpochAverageOverBatches ==
    /\ ro_err # "ZeroDivisionError"
    /\ \A i \in 1..Len(ln_epoch_loss) :
          /\ ln_epoch_loss[i][2] > 0
          /\ ln_epoch_loss[i][1] * ln_n_batches
                = EpochLossSum(i) * ln_epoch_loss[i][2]

---------------------------------------------------------------------------
(* The specifications *)

InitSpecPatch ==
    InitPatch /\ NoiseIdle /\ TrainIdle /\ AvgIdle /\ DataIdle /\ OptimIdle
NextPatch == CallSamplePatch
SpecPatch == InitSpecPatch /\ [][NextPatch]_vars

InitSpecNoise ==
    PatchIdle /\ InitNoise /\ TrainIdle /\ AvgIdle /\ DataIdle /\ OptimIdle
NextNoise == DrawSample \/ ReturnNoise
SpecNoise == InitSpecNoise /\ [][NextNoise]_vars

InitSpecTrain ==
    PatchIdle /\ NoiseIdle /\ InitTrain /\ AvgIdle /\ DataIdle /\ OptimIdle
SpecTrain == InitSpecTrain /\ [][NextTrain]_vars
\* the procedure is sequential code: it takes its next step while it has one
SpecTrainLive == SpecTrain /\ WF_vars(NextTrain)

InitSpecAvg ==
    PatchIdle /\ NoiseIdle /\ TrainIdle /\ InitAvg /\ DataIdle /\ OptimIdle
SpecAvg == InitSpecAvg /\ [][NextAvg]_vars

InitSpecData ==
    PatchIdle /\ NoiseIdle /\ TrainIdle /\ AvgIdle /\ InitData /\ OptimIdle
SpecData == InitSpecData /\ [][NextData]_vars

InitSpecOptim ==
    PatchIdle /\ NoiseIdle /\ TrainIdle /\ AvgIdle /\ DataIdle /\ InitOptim
SpecOptim == InitSpecOptim /\ [][NextOptim]_vars

===========================================================================
